---- MODULE Spec2Model ----
(***************************************************************************)
(* Report lifecycle of the civic-issue backend                             *)
(* (src/controllers/reportController.js, schema src/unnamed/part_001,      *)
(* routes src/unnamed/part_000).                                           *)
(*                                                                         *)
(* Every HTTP request is a handler that runs from one `await` to the next; *)
(* the code between two awaits is one atomic step, and the steps of        *)
(* different requests interleave freely.  A request slot holds the         *)
(* handler's position (pc), its inputs, the document it loaded with        *)
(* findById and the response it sent.                                      *)
(*                                                                         *)
(* report.save() is Mongoose's save: it sends the paths the handler        *)
(* modified, not the whole document.  A scalar assignment is a $set of     *)
(* that path; upvotes.push(x) is an atomic $push of x that increments the  *)
(* version key __v; upvotes.splice(i, 1) is a $set of the whole array      *)
(* guarded by the version key the document was loaded with.  save() on a   *)
(* document that is no longer stored rejects (DocumentNotFoundError).      *)
(***************************************************************************)
EXTENDS Integers, Sequences, FiniteSets, TLC

\* ------------------------------------------------------------- bounds ----
MaxReports  == 1      \* reports ever created
MaxUploads  == 2      \* assets ever stored on the image host
MaxVersion  == 3      \* cap of the version key __v

\* ------------------------------------------------------------ domains ----
Slots     == {1, 2}                 \* two requests in flight at a time
Ids       == 1..MaxReports
Urls      == 1..MaxUploads
NoUrl     == 0                      \* null / undefined image URL
ForeignUrl == -1                    \* a URL a client wrote into a body field
NoSeverity == 0                     \* req.body.severity absent (falsy)
Severities == 1..5
Users     == {"u1", "u2", "adm"}
Statuses  == {"pending", "in-progress", "resolved"}
NoStatus  == "none"                 \* req.body.status absent
Departments == {"Roads", "Water"}
NoDoc     == [none |-> TRUE]
NoBody    == <<>>                   \* no further field in req.body
Emails    == {"om@gmail.com", "a@x", "b@x"}
Passwords == {"omjain", "pw"}
NoField   == ""                     \* a body field that is absent or empty

VARIABLES
  reports,   \* the Report collection: id -> document, for the stored ids
  nextId,    \* number of documents created so far (ids are never reused)
  assets,    \* URLs of the assets that exist on the image host
  nextUrl,   \* number of assets uploaded so far (URLs are never reused)
  users,     \* the User collection: email -> stored password hash
  req        \* the request slots

vars == <<reports, nextId, assets, nextUrl, users, req>>

\* role of the authenticated user (req.user.role); the seed makes one admin
role(u) == IF u = "adm" THEN "admin" ELSE "user"

Stored == DOMAIN reports

\* ------------------------------------------------------ request slots ----
Blank ==
  [ op |-> "none", pc |-> "idle", caller |-> "u1", id |-> 0,
    status |-> NoStatus, file |-> FALSE, imageType |-> "none",
    severity |-> NoSeverity, fieldsOk |-> TRUE, imageUrl |-> NoUrl,
    doc |-> NoDoc, tried |-> {}, failed |-> {}, resp |-> 0, msg |-> "",
    email |-> "", password |-> "", department |-> "", body |-> NoBody ]

Free(s) == req[s].pc \in {"idle", "done", "hung"}

\* res.status(code).json(...): the request has its response
Respond(s, code) ==
  [Blank EXCEPT !.op = req[s].op, !.pc = "done", !.resp = code]

\* ---------------------------------------------------------- createReport -
\* the derivation with the upper threshold off by one
derivePriority_gt4(severity) ==
  IF severity = NoSeverity THEN "medium"
  ELSE IF severity > 4 THEN "high"
  ELSE IF severity <= 2 THEN "low"
  ELSE "medium"

\* priority derived from req.body.severity, as createReport computes it
derivePriority(severity) ==
  IF severity = NoSeverity THEN "medium"
  ELSE IF severity >= 4 THEN "high"
  ELSE IF severity <= 2 THEN "low"
  ELSE "medium"

\* the document Report.create builds from reportData and the schema defaults
reportData(user, severity, imageUrl) ==
  [ user |-> user, status |-> "pending", priority |-> derivePriority(severity),
    severity |-> severity, imageUrl |-> imageUrl, afterImageUrl |-> NoUrl,
    assignedDepartment |-> "Unassigned", upvotes |-> <<>>, v |-> 0 ]

\* POST /reports arrives (protect: any authenticated user).  multer parses the
\* body; without a file uploadToCloudinary calls next() at once.
createReport_request(s, u, f, sev, st, ok) ==
  /\ Free(s)
  /\ req' = [req EXCEPT ![s] =
               [Blank EXCEPT !.op = "create", !.caller = u, !.file = f,
                             !.severity = sev, !.status = st, !.fieldsOk = ok,
                             !.pc = IF f THEN "upload" ELSE "create"]]
  /\ UNCHANGED <<reports, nextId, assets, nextUrl, users>>

\* the callback calling next() on an upload error as well
uploadToCloudinary_continues(s) ==
  /\ req[s].op = "create" /\ req[s].pc = "upload"
  /\ \/ /\ req' = [req EXCEPT ![s].pc = "create"]
        /\ UNCHANGED <<assets, nextUrl>>
     \/ /\ nextUrl < MaxUploads
        /\ nextUrl' = nextUrl + 1
        /\ assets' = assets \cup {nextUrl + 1}
        /\ req' = [req EXCEPT ![s].pc = "create", ![s].imageUrl = nextUrl + 1]
  /\ UNCHANGED <<reports, nextId, users>>

\* the upload_stream callback of uploadToCloudinary: error -> 500, otherwise
\* req.body.imageUrl = result.secure_url and next()
uploadToCloudinary(s) ==
  /\ req[s].op = "create" /\ req[s].pc = "upload"
  /\ \/ /\ req' = [req EXCEPT ![s] = Respond(s, 500)]
        /\ UNCHANGED <<assets, nextUrl>>
     \/ /\ nextUrl < MaxUploads
        /\ nextUrl' = nextUrl + 1
        /\ assets' = assets \cup {nextUrl + 1}
        /\ req' = [req EXCEPT ![s].pc = "create", ![s].imageUrl = nextUrl + 1]
  /\ UNCHANGED <<reports, nextId, users>>

\* the async handler of createReport: Report.create(reportData); a validation
\* error (missing description/address, bad category) is caught -> 400
createReport(s) ==
  /\ req[s].op = "create" /\ req[s].pc = "create"
  /\ IF ~req[s].fieldsOk
       THEN /\ req' = [req EXCEPT ![s] = Respond(s, 400)]
            /\ UNCHANGED <<reports, nextId>>
       ELSE /\ nextId < MaxReports
            /\ nextId' = nextId + 1
            /\ reports' = (nextId + 1 :> reportData(req[s].caller, req[s].severity,
                                                     req[s].imageUrl)) @@ reports
            /\ req' = [req EXCEPT ![s] =
                         [Respond(s, 201) EXCEPT !.file = req[s].file,
                                                 !.severity = req[s].severity,
                                                 !.status = req[s].status]]
  /\ UNCHANGED <<assets, nextUrl, users>>

\* ---------------------------------------------------------- upvoteReport -
\* report.upvotes.findIndex(userId => userId.toString() === req.user.id):
\* the first position holding the user, 0 when there is none
findIndex(upvotes, user) ==
  IF \E i \in 1..Len(upvotes) : upvotes[i] = user
    THEN CHOOSE i \in 1..Len(upvotes) :
           /\ upvotes[i] = user
           /\ \A j \in 1..(i - 1) : upvotes[j] # user
    ELSE 0

\* upvotes.splice(i, 1)
splice(upvotes, i) ==
  [k \in 1..(Len(upvotes) - 1) |-> IF k < i THEN upvotes[k] ELSE upvotes[k + 1]]

\* the in-memory toggle of upvoteReport: splice the user out when the list
\* holds it, push it otherwise
toggled(upvotes, user) ==
  IF findIndex(upvotes, user) > 0
    THEN splice(upvotes, findIndex(upvotes, user))
    ELSE Append(upvotes, user)

\* PUT /reports/:id/upvote arrives (protect: any authenticated user)
upvoteReport_request(s, u, i) ==
  /\ Free(s)
  /\ req' = [req EXCEPT ![s] =
               [Blank EXCEPT !.op = "upvote", !.caller = u, !.id = i, !.pc = "find"]]
  /\ UNCHANGED <<reports, nextId, assets, nextUrl, users>>

\* findById, then the membership test and the in-memory push or splice
upvoteReport_find(s) ==
  /\ req[s].op = "upvote" /\ req[s].pc = "find"
  /\ IF req[s].id \notin Stored
       THEN req' = [req EXCEPT ![s] = Respond(s, 404)]
       ELSE req' = [req EXCEPT ![s].pc = "save",
                               ![s].doc = [upvotes |-> reports[req[s].id].upvotes,
                                           v |-> reports[req[s].id].v]]
  /\ UNCHANGED <<reports, nextId, assets, nextUrl, users>>

\* the save of a spliced array sent without the version in its filter
versionMatches_unchecked(stored, doc) == TRUE

\* the filter of the $set of a spliced array: the stored __v is the loaded one
versionMatches(stored, doc) == stored.v = doc.v

\* report.save() of the toggled document, then 200; a rejected save -> 500
upvoteReport_save(s) ==
  /\ req[s].op = "upvote" /\ req[s].pc = "save"
  /\ LET i   == req[s].id
         doc == req[s].doc
         at  == findIndex(doc.upvotes, req[s].caller)
         sent(code) == [Respond(s, code) EXCEPT !.caller = req[s].caller]
     IN  IF i \notin Stored
           THEN /\ req' = [req EXCEPT ![s] = sent(500)]
                /\ UNCHANGED reports
         ELSE IF at > 0
           THEN \* splice: $set of the array, where __v is the loaded one
                IF ~versionMatches(reports[i], doc)
                  THEN /\ req' = [req EXCEPT ![s] = sent(500)]
                       /\ UNCHANGED reports
                  ELSE /\ reports[i].v < MaxVersion
                       /\ reports' = [reports EXCEPT
                                        ![i].upvotes = toggled(doc.upvotes, req[s].caller),
                                        ![i].v = @ + 1]
                       /\ req' = [req EXCEPT ![s] = sent(200)]
           ELSE \* push: atomic $push, __v incremented
                /\ reports[i].v < MaxVersion
                /\ reports' = [reports EXCEPT
                                 ![i].upvotes = Append(@, req[s].caller),
                                 ![i].v = @ + 1]
                /\ req' = [req EXCEPT ![s] = sent(200)]
  /\ UNCHANGED <<nextId, assets, nextUrl, users>>

\* ---------------------------------------------------- the image host ----
\* cloudinary.uploader.destroy inside deleteFromCloudinary's try/catch: the
\* asset is removed (ok) or the call throws and the error is only logged
destroyed(url, ok) == IF ok THEN assets \ {url} ELSE assets

\* authorize(role) of the router: the callers that pass the gate
authorize(u, required) == role(u) = required

\* the router with PUT /reports/:id open to role user instead of admin
routeRole_userStatus(op) == IF op = "status" THEN "user" ELSE "admin"

\* the role the router requires on the admin-only routes: GET /stats,
\* PUT /:id/assign and PUT /:id each carry authorize('admin')
routeRole(op) == IF op \in {"stats", "assign", "status"} THEN "admin" ELSE "any"

\* ---------------------------------------------------- updateReportStatus -
\* PUT /reports/:id arrives: protect, authorize('admin'), then multer.  The
\* body carries status st (or none), the file f, and the further fields body,
\* of which afterImageUrl is the one the handler reads besides status
updateReportStatus_body(s, u, i, st, f, body) ==
  /\ Free(s)
  /\ req' = [req EXCEPT ![s] =
               IF ~authorize(u, routeRole("status"))
                 THEN [Blank EXCEPT !.op = "status", !.pc = "done", !.resp = 403,
                                    !.caller = u]
                 ELSE [Blank EXCEPT !.op = "status", !.id = i, !.caller = u,
                                    !.status = st, !.body = body,
                                    !.imageUrl = IF "afterImageUrl" \in DOMAIN body
                                                   THEN body.afterImageUrl ELSE NoUrl,
                                    !.pc = IF f THEN "upload" ELSE "find"]]
  /\ UNCHANGED <<reports, nextId, assets, nextUrl, users>>

\* the same request with status and file only
updateReportStatus_request(s, u, i, st, f) ==
  updateReportStatus_body(s, u, i, st, f, NoBody)

\* the upload_stream callback of uploadAfterImageToCloudinary
uploadAfterImageToCloudinary(s) ==
  /\ req[s].op = "status" /\ req[s].pc = "upload"
  /\ \/ /\ req' = [req EXCEPT ![s] = Respond(s, 500)]
        /\ UNCHANGED <<assets, nextUrl>>
     \/ /\ nextUrl < MaxUploads
        /\ nextUrl' = nextUrl + 1
        /\ assets' = assets \cup {nextUrl + 1}
        /\ req' = [req EXCEPT ![s].pc = "find", ![s].imageUrl = nextUrl + 1]
  /\ UNCHANGED <<reports, nextId, users>>

\* the gate with the stored after-image forgotten
afterImageRequired_noStored(status, bodyUrl, storedUrl) ==
  status = "resolved" /\ bodyUrl = NoUrl

\* the after-image gate: req.body.status === 'resolved' &&
\* !req.body.afterImageUrl && !report.afterImageUrl
afterImageRequired(status, bodyUrl, storedUrl) ==
  status = "resolved" /\ bodyUrl = NoUrl /\ storedUrl = NoUrl

\* findById, the gate, and the two in-memory assignments
updateReportStatus_find(s) ==
  /\ req[s].op = "status" /\ req[s].pc = "find"
  /\ IF req[s].id \notin Stored
       THEN req' = [req EXCEPT ![s] = Respond(s, 404)]
     ELSE IF afterImageRequired(req[s].status, req[s].imageUrl,
                                reports[req[s].id].afterImageUrl)
       THEN req' = [req EXCEPT ![s] =
                      [Respond(s, 400) EXCEPT !.msg = "After image required to resolve."]]
     ELSE req' = [req EXCEPT ![s].pc = "save"]
  /\ UNCHANGED <<reports, nextId, assets, nextUrl, users>>

\* the update that never takes a resolved report back
statusDelta_forwardOnly(doc, status, bodyUrl, body) ==
  [doc EXCEPT !.afterImageUrl = IF bodyUrl # NoUrl THEN bodyUrl ELSE @,
              !.status = IF status # NoStatus /\ @ # "resolved" THEN status ELSE @]

\* the update that writes every field of the body
statusDelta_verbatim(doc, status, bodyUrl, body) ==
  [f \in DOMAIN doc |->
     IF f \in DOMAIN body THEN body[f]
     ELSE IF f = "afterImageUrl" /\ bodyUrl # NoUrl THEN bodyUrl
     ELSE IF f = "status" /\ status # NoStatus THEN status
     ELSE doc[f]]

\* the paths updateReportStatus assigns: afterImageUrl and status, each only
\* when the body carries it; no other field of the body is read
statusDelta(doc, status, bodyUrl, body) ==
  [doc EXCEPT !.afterImageUrl = IF bodyUrl # NoUrl THEN bodyUrl ELSE @,
              !.status = IF status # NoStatus THEN status ELSE @]

\* report.save() (the schema's enum validates status), then the refreshed
\* document is sent; a rejected save is caught -> 400
updateReportStatus_save(s) ==
  /\ req[s].op = "status" /\ req[s].pc = "save"
  /\ LET i == req[s].id IN
       IF i \notin Stored \/ req[s].status \notin Statuses \cup {NoStatus}
         THEN /\ req' = [req EXCEPT ![s] = Respond(s, 400)]
              /\ UNCHANGED reports
         ELSE /\ reports' = [reports EXCEPT
                               ![i] = statusDelta(@, req[s].status, req[s].imageUrl,
                                                  req[s].body)]
              /\ req' = [req EXCEPT ![s] =
                           [Respond(s, 200) EXCEPT !.body = req[s].body]]
  /\ UNCHANGED <<nextId, assets, nextUrl, users>>

\* ------------------------------------------------- updateUserReportImage -
\* PUT /reports/:id/image arrives (protect); multer parses the body
updateUserReportImage_request(s, u, i, f) ==
  /\ Free(s)
  /\ req' = [req EXCEPT ![s] =
               [Blank EXCEPT !.op = "replace", !.caller = u, !.id = i,
                             !.file = f, !.pc = "find"]]
  /\ UNCHANGED <<reports, nextId, assets, nextUrl, users>>

\* the handler: no file -> 400; findById; owner only, pending only
updateUserReportImage_find(s) ==
  /\ req[s].op = "replace" /\ req[s].pc = "find"
  /\ LET i == req[s].id IN
       IF ~req[s].file
         THEN req' = [req EXCEPT ![s] = Respond(s, 400)]
       ELSE IF i \notin Stored
         THEN req' = [req EXCEPT ![s] = Respond(s, 404)]
       ELSE IF reports[i].user # req[s].caller
         THEN req' = [req EXCEPT ![s] =
                        [Respond(s, 403) EXCEPT !.caller = req[s].caller]]
       ELSE IF reports[i].status # "pending"
         THEN req' = [req EXCEPT ![s] = Respond(s, 400)]
       ELSE req' = [req EXCEPT
                      ![s].file = FALSE,
                      ![s].doc = [imageUrl |-> reports[i].imageUrl],
                      ![s].pc = IF reports[i].imageUrl # NoUrl THEN "destroy"
                                                               ELSE "upload"]
  /\ UNCHANGED <<reports, nextId, assets, nextUrl, users>>

\* await deleteFromCloudinary(report.imageUrl), then the upload is started
updateUserReportImage_destroy(s) ==
  /\ req[s].op = "replace" /\ req[s].pc = "destroy"
  /\ \E ok \in BOOLEAN : assets' = destroyed(req[s].doc.imageUrl, ok)
  /\ req' = [req EXCEPT ![s].pc = "upload"]
  /\ UNCHANGED <<reports, nextId, nextUrl, users>>

\* the upload_stream callback: error -> 500, otherwise report.imageUrl is
\* assigned and report.save() is awaited
updateUserReportImage_upload(s) ==
  /\ req[s].op = "replace" /\ req[s].pc = "upload"
  /\ \/ /\ req' = [req EXCEPT ![s] = Respond(s, 500)]
        /\ UNCHANGED <<assets, nextUrl>>
     \/ /\ nextUrl < MaxUploads
        /\ nextUrl' = nextUrl + 1
        /\ assets' = assets \cup {nextUrl + 1}
        /\ req' = [req EXCEPT ![s].pc = "save", ![s].imageUrl = nextUrl + 1]
  /\ UNCHANGED <<reports, nextId, users>>

\* report.save() inside the callback, which has no try/catch: a rejected
\* save is an unhandled rejection and no response is ever sent
updateUserReportImage_save(s) ==
  /\ req[s].op = "replace" /\ req[s].pc = "save"
  /\ LET i == req[s].id IN
       IF i \notin Stored
         THEN /\ req' = [req EXCEPT ![s] = [Blank EXCEPT !.op = "replace", !.pc = "hung"]]
              /\ UNCHANGED reports
         ELSE /\ reports' = [reports EXCEPT ![i].imageUrl = req[s].imageUrl]
              /\ req' = [req EXCEPT ![s] = Respond(s, 200)]
  /\ UNCHANGED <<nextId, assets, nextUrl, users>>

\* ----------------------------------------------------- deleteReportImage -
\* DELETE /reports/:id/image arrives (protect)
deleteReportImage_request(s, u, i, t) ==
  /\ Free(s)
  /\ req' = [req EXCEPT ![s] =
               [Blank EXCEPT !.op = "delimg", !.caller = u, !.id = i,
                             !.imageType = t, !.pc = "find"]]
  /\ UNCHANGED <<reports, nextId, assets, nextUrl, users>>

\* the admin branch taking every imageType other than after for before
imageSlot_defaultBefore(doc, u, t) ==
  IF role(u) = "admin"
    THEN IF t = "after" /\ doc.afterImageUrl # NoUrl THEN "afterImageUrl"
         ELSE IF t # "after" /\ doc.imageUrl # NoUrl THEN "imageUrl"
         ELSE "400"
    ELSE IF doc.user # u THEN "403"
         ELSE IF doc.status # "pending" THEN "400"
         ELSE IF doc.imageUrl # NoUrl THEN "imageUrl"
         ELSE "400"

\* the slot deleteReportImage clears for this caller and document: "imageUrl",
\* "afterImageUrl", or the status of the refusal
imageSlot(doc, u, t) ==
  IF role(u) = "admin"
    THEN IF t = "before" /\ doc.imageUrl # NoUrl THEN "imageUrl"
         ELSE IF t = "after" /\ doc.afterImageUrl # NoUrl THEN "afterImageUrl"
         ELSE "400"
    ELSE IF doc.user # u THEN "403"
         ELSE IF doc.status # "pending" THEN "400"
         ELSE IF doc.imageUrl # NoUrl THEN "imageUrl"
         ELSE "400"

\* findById and the admin / owner branches up to the external delete
deleteReportImage_find(s) ==
  /\ req[s].op = "delimg" /\ req[s].pc = "find"
  /\ LET i == req[s].id IN
       IF i \notin Stored
         THEN req' = [req EXCEPT ![s] = Respond(s, 404)]
         ELSE LET slot == imageSlot(reports[i], req[s].caller, req[s].imageType) IN
              IF slot = "403"
                THEN req' = [req EXCEPT ![s] =
                               [Respond(s, 403) EXCEPT !.caller = req[s].caller]]
              ELSE IF slot = "400" THEN req' = [req EXCEPT ![s] = Respond(s, 400)]
              ELSE req' = [req EXCEPT ![s].pc = "destroy",
                                      ![s].imageType = Blank.imageType,
                                      ![s].doc = [slot |-> slot, url |-> reports[i][slot]]]
  /\ UNCHANGED <<reports, nextId, assets, nextUrl, users>>

\* await deleteFromCloudinary(url), then the field is set to null in memory
deleteReportImage_destroy(s) ==
  /\ req[s].op = "delimg" /\ req[s].pc = "destroy"
  /\ \E ok \in BOOLEAN : assets' = destroyed(req[s].doc.url, ok)
  /\ req' = [req EXCEPT ![s].pc = "save"]
  /\ UNCHANGED <<reports, nextId, nextUrl, users>>

\* report.save() of the cleared field; a rejected save is caught -> 500
deleteReportImage_save(s) ==
  /\ req[s].op = "delimg" /\ req[s].pc = "save"
  /\ LET i == req[s].id IN
       IF i \notin Stored
         THEN /\ req' = [req EXCEPT ![s] = Respond(s, 500)]
              /\ UNCHANGED reports
         ELSE /\ reports' = [reports EXCEPT ![i][req[s].doc.slot] = NoUrl]
              /\ req' = [req EXCEPT ![s] = Respond(s, 200)]
  /\ UNCHANGED <<nextId, assets, nextUrl, users>>

\* ---------------------------------------------------------- deleteReport -
\* DELETE /reports/:id arrives (protect)
deleteReport_request(s, u, i) ==
  /\ Free(s)
  /\ req' = [req EXCEPT ![s] =
               [Blank EXCEPT !.op = "delete", !.caller = u, !.id = i, !.pc = "find"]]
  /\ UNCHANGED <<reports, nextId, assets, nextUrl, users>>

\* the check with every authenticated caller let through
mayDelete_anyone(doc, u) == TRUE

\* the check of deleteReport: the report's owner or an admin
mayDelete(doc, u) == doc.user = u \/ role(u) = "admin"

\* findById and the authorization check
deleteReport_find(s) ==
  /\ req[s].op = "delete" /\ req[s].pc = "find"
  /\ LET i == req[s].id IN
       IF i \notin Stored
         THEN req' = [req EXCEPT ![s] = Respond(s, 404)]
       ELSE IF ~mayDelete(reports[i], req[s].caller)
         THEN req' = [req EXCEPT ![s] =
                        [Respond(s, 403) EXCEPT !.caller = req[s].caller]]
       ELSE req' = [req EXCEPT ![s].pc = "destroy",
                               ![s].caller = Blank.caller,
                               ![s].doc = [imageUrl |-> reports[i].imageUrl,
                                           afterImageUrl |-> reports[i].afterImageUrl]]
  /\ UNCHANGED <<reports, nextId, assets, nextUrl, users>>

\* the external delete without its try/catch: a failure reaches the outer
\* catch of deleteReport, which answers 500 and keeps the record
deleteReport_destroyOne_throws(s, url, ok, nextPc) ==
  IF url = NoUrl
    THEN /\ req' = [req EXCEPT ![s].pc = nextPc]
         /\ UNCHANGED assets
    ELSE /\ assets' = destroyed(url, ok)
         /\ req' = [req EXCEPT ![s] =
                      IF ok THEN [req[s] EXCEPT !.pc = nextPc, !.tried = @ \cup {url}]
                            ELSE Respond(s, 500)]

\* the local deleteFromCloudinary of deleteReport on one URL: nothing for a
\* missing URL, otherwise destroy is called and its failure is only logged.
\* tried / failed record the external deletes attempted and those that threw.
deleteReport_destroyOne(s, url, ok, nextPc) ==
  IF url = NoUrl
    THEN /\ req' = [req EXCEPT ![s].pc = nextPc]
         /\ UNCHANGED assets
    ELSE /\ assets' = destroyed(url, ok)
         /\ req' = [req EXCEPT ![s].pc = nextPc,
                               ![s].tried = @ \cup {url},
                               ![s].failed = IF ok THEN @ ELSE @ \cup {url}]

\* await deleteFromCloudinary(report.imageUrl)
deleteReport_destroy(s) ==
  /\ req[s].op = "delete" /\ req[s].pc = "destroy"
  /\ \E ok \in BOOLEAN :
       deleteReport_destroyOne(s, req[s].doc.imageUrl, ok, "destroyAfter")
  /\ UNCHANGED <<reports, nextId, nextUrl, users>>

\* await deleteFromCloudinary(report.afterImageUrl)
deleteReport_destroyAfter(s) ==
  /\ req[s].op = "delete" /\ req[s].pc = "destroyAfter"
  /\ \E ok \in BOOLEAN :
       deleteReport_destroyOne(s, req[s].doc.afterImageUrl, ok, "remove")
  /\ UNCHANGED <<reports, nextId, nextUrl, users>>

\* await report.deleteOne(), then 200
deleteReport_remove(s) ==
  /\ req[s].op = "delete" /\ req[s].pc = "remove"
  /\ reports' = [j \in Stored \ {req[s].id} |-> reports[j]]
  /\ req' = [req EXCEPT ![s] =
               [Respond(s, 200) EXCEPT !.tried = req[s].tried,
                                       !.failed = req[s].failed]]
  /\ UNCHANGED <<nextId, assets, nextUrl, users>>

\* ----------------------------------------------------- bulkUpdateReports -
\* updateData applied to one document: every path of the patch is set
applyPatch(doc, patch) ==
  [f \in DOMAIN doc |-> IF f \in DOMAIN patch THEN patch[f] ELSE doc[f]]

\* updateMany without runValidators
patchValid_off(patch) == TRUE

\* runValidators: the enum validators of the paths the patch sets
patchValid(patch) ==
  /\ "status" \in DOMAIN patch => patch.status \in Statuses
  /\ "priority" \in DOMAIN patch => patch.priority \in {"low", "medium", "high"}

\* PUT /reports/bulk-update (admin): Report.updateMany({_id: {$in: reportIds}},
\* updateData, {runValidators: true}); a validation error is caught -> 400
bulkUpdateReports(s, u, ids, patch) ==
  /\ Free(s)
  /\ IF ~authorize(u, "admin")
       THEN /\ req' = [req EXCEPT ![s] =
                         [Blank EXCEPT !.op = "bulk", !.pc = "done", !.resp = 403]]
            /\ UNCHANGED reports
     ELSE IF ~patchValid(patch)
       THEN /\ req' = [req EXCEPT ![s] =
                         [Blank EXCEPT !.op = "bulk", !.pc = "done", !.resp = 400]]
            /\ UNCHANGED reports
     ELSE /\ reports' = [j \in Stored |-> IF j \in ids THEN applyPatch(reports[j], patch)
                                                       ELSE reports[j]]
          /\ req' = [req EXCEPT ![s] =
                       [Blank EXCEPT !.op = "bulk", !.pc = "done", !.resp = 200]]
  /\ UNCHANGED <<nextId, assets, nextUrl, users>>

\* ------------------------------------------------------ assignDepartment -
\* the assignment that also takes the report back to pending
assigned_resets(doc, dept) ==
  [doc EXCEPT !.assignedDepartment = dept, !.status = "pending"]

\* the document after the assignment: assignedDepartment set, nothing else
assigned(doc, dept) == [doc EXCEPT !.assignedDepartment = dept]

\* PUT /reports/:id/assign (admin): sets assignedDepartment of the report
assignDepartment(s, u, i, dept) ==
  /\ Free(s)
  /\ IF ~authorize(u, routeRole("assign"))
       THEN /\ req' = [req EXCEPT ![s] =
                         [Blank EXCEPT !.op = "assign", !.pc = "done", !.resp = 403,
                                       !.caller = u]]
            /\ UNCHANGED reports
     ELSE IF i \notin Stored
       THEN /\ req' = [req EXCEPT ![s] =
                         [Blank EXCEPT !.op = "assign", !.pc = "done", !.resp = 404,
                                       !.caller = u, !.id = i]]
            /\ UNCHANGED reports
     ELSE /\ reports' = [reports EXCEPT ![i] = assigned(@, dept)]
          /\ req' = [req EXCEPT ![s] =
                       [Blank EXCEPT !.op = "assign", !.pc = "done", !.resp = 200,
                                     !.caller = u, !.id = i, !.department = dept]]
  /\ UNCHANGED <<nextId, assets, nextUrl, users>>

\* -------------------------------------------------------- getReportStats -
Counts  == {"total", "pending", "in-progress", "resolved"}

\* Report.countDocuments(filter) on the collection as it is now
countDocuments(k) ==
  IF k = "total" THEN Cardinality(Stored)
  ELSE Cardinality({j \in Stored : reports[j].status = k})

\* GET /reports/stats arrives: protect, authorize('admin'); the four counts
\* are issued together (Promise.all) and answered in any order
getReportStats_request(s, u) ==
  /\ Free(s)
  /\ req' = [req EXCEPT ![s] =
               IF ~authorize(u, routeRole("stats"))
                 THEN [Blank EXCEPT !.op = "stats", !.pc = "done", !.resp = 403,
                                    !.caller = u]
                 ELSE [Blank EXCEPT !.op = "stats", !.pc = "count", !.caller = u,
                                    !.tried = Counts,
                                    !.doc = [total |-> 0, pending |-> 0,
                                             inProgress |-> 0, resolved |-> 0,
                                             seen |-> <<>>, written |-> FALSE]]]
  /\ UNCHANGED <<reports, nextId, assets, nextUrl, users>>

\* one of the four counts is answered by the store.  seen is the collection
\* the first count ran on; written records that a later count ran on a
\* collection that differs from it.  The last answer resolves Promise.all -> 200
getReportStats_count(s, k) ==
  /\ req[s].op = "stats" /\ req[s].pc = "count"
  /\ k \in req[s].tried
  /\ LET d    == req[s].doc
         n    == countDocuments(k)
         frst == req[s].tried = Counts
         d1   == [d EXCEPT !.total = IF k = "total" THEN n ELSE @,
                           !.pending = IF k = "pending" THEN n ELSE @,
                           !.inProgress = IF k = "in-progress" THEN n ELSE @,
                           !.resolved = IF k = "resolved" THEN n ELSE @,
                           !.written = @ \/ (~frst /\ d.seen # reports),
                           !.seen = IF d.written \/ (~frst /\ d.seen # reports)
                                      THEN <<>> ELSE reports]
         left == req[s].tried \ {k}
     IN  req' = [req EXCEPT ![s] =
                   IF left = {}
                     THEN [Respond(s, 200) EXCEPT !.doc = [d1 EXCEPT !.seen = <<>>]]
                     ELSE [req[s] EXCEPT !.doc = d1, !.tried = left]]
  /\ UNCHANGED <<reports, nextId, assets, nextUrl, users>>

\* ------------------------------------------------------ register / login -
\* bcrypt.hash(password, salt): a one-way image of the password
hash(password) == <<"bcrypt", password>>

\* bcrypt.compare(password, stored)
compare(password, stored) == stored = hash(password)

\* seedAdminUser of server.js: the admin account exists before any request
seedAdminUser == ("om@gmail.com" :> hash("omjain"))

\* the refusal with a status and a message that tell the causes apart
loginRefusal_leaks(cause) ==
  IF cause = "no user" THEN [resp |-> 404, msg |-> "User not found"]
                       ELSE [resp |-> 401, msg |-> "Invalid credentials"]

\* res.status(401).json({success: false, message: 'Invalid credentials'}),
\* written twice in login: after findOne gave null, after compare gave false
loginRefusal(cause) == [resp |-> 401, msg |-> "Invalid credentials"]

\* POST /auth/register: missing field -> 400; hash; User.create, where the
\* unique index on email rejects a duplicate (caught -> 400); 201
register(s, email, password) ==
  /\ Free(s)
  /\ IF email = NoField \/ password = NoField \/ email \in DOMAIN users
       THEN /\ req' = [req EXCEPT ![s] =
                         [Blank EXCEPT !.op = "register", !.pc = "done", !.resp = 400]]
            /\ UNCHANGED users
       ELSE /\ users' = (email :> hash(password)) @@ users
            /\ req' = [req EXCEPT ![s] =
                         [Blank EXCEPT !.op = "register", !.pc = "done", !.resp = 201]]
  /\ UNCHANGED <<reports, nextId, assets, nextUrl>>

\* POST /auth/login arrives: a missing email or password -> 400
login_request(s, email, password) ==
  /\ Free(s)
  /\ req' = [req EXCEPT ![s] =
               IF email = NoField \/ password = NoField
                 THEN [Blank EXCEPT !.op = "login", !.pc = "done", !.resp = 400,
                                    !.msg = "Please provide an email and password"]
                 ELSE [Blank EXCEPT !.op = "login", !.pc = "find",
                                    !.email = email, !.password = password]]
  /\ UNCHANGED <<reports, nextId, assets, nextUrl, users>>

\* the response of a login request; the body is {success, message} or
\* {success, token, user}, of which resp and msg tell the refusals apart
login_respond(s, r) ==
  [Blank EXCEPT !.op = "login", !.pc = "done", !.resp = r.resp, !.msg = r.msg,
                !.email = req[s].email, !.password = req[s].password]

\* User.findOne({email}).select('+password'): null -> the refusal
login_find(s) ==
  /\ req[s].op = "login" /\ req[s].pc = "find"
  /\ req' = [req EXCEPT ![s] =
               IF req[s].email \notin DOMAIN users
                 THEN [login_respond(s, loginRefusal("no user")) EXCEPT
                         !.doc = [cause |-> "no user"]]
                 ELSE [req[s] EXCEPT !.pc = "compare",
                                     !.doc = [stored |-> users[req[s].email]]]]
  /\ UNCHANGED <<reports, nextId, assets, nextUrl, users>>

\* bcrypt.compare(password, user.password): false -> the refusal; otherwise
\* the token is signed and the user is sent -> 200
login_compare(s) ==
  /\ req[s].op = "login" /\ req[s].pc = "compare"
  /\ req' = [req EXCEPT ![s] =
               IF ~compare(req[s].password, req[s].doc.stored)
                 THEN [login_respond(s, loginRefusal("wrong password")) EXCEPT
                         !.doc = [cause |-> "wrong password"]]
                 ELSE login_respond(s, [resp |-> 200, msg |-> ""])]
  /\ UNCHANGED <<reports, nextId, assets, nextUrl, users>>

\* ------------------------------------------------------------- the system
Init ==
  /\ reports = <<>>
  /\ nextId = 0
  /\ assets = {}
  /\ nextUrl = 0
  /\ users = seedAdminUser
  /\ req = [s \in Slots |-> Blank]

\* the patches of bulkUpdateReports that are exercised
Patches ==
  { [status |-> "resolved"], [status |-> "in-progress"], [status |-> "closed"],
    [user |-> "u2"], [imageUrl |-> NoUrl], [afterImageUrl |-> NoUrl],
    [priority |-> "high"] }

\* Every operation of the report service, one request at a time.
Next ==
  \E s \in {1} :
    \/ \E u \in {"u1", "adm"}, f \in BOOLEAN :
         createReport_request(s, u, f, NoSeverity, NoStatus, TRUE)
    \/ uploadToCloudinary(s)
    \/ createReport(s)
    \/ \E u \in {"u1", "adm"}, i \in Ids, st \in Statuses \cup {NoStatus}, f \in BOOLEAN :
         updateReportStatus_request(s, u, i, st, f)
    \/ uploadAfterImageToCloudinary(s)
    \/ updateReportStatus_find(s)
    \/ updateReportStatus_save(s)
    \/ \E u \in Users, i \in Ids, f \in BOOLEAN : updateUserReportImage_request(s, u, i, f)
    \/ updateUserReportImage_find(s)
    \/ updateUserReportImage_destroy(s)
    \/ updateUserReportImage_upload(s)
    \/ updateUserReportImage_save(s)
    \/ \E u \in Users, i \in Ids, ty \in {"before", "after", "none"} :
         deleteReportImage_request(s, u, i, ty)
    \/ deleteReportImage_find(s)
    \/ deleteReportImage_destroy(s)
    \/ deleteReportImage_save(s)
    \/ \E u \in Users, i \in Ids : deleteReport_request(s, u, i)
    \/ deleteReport_find(s)
    \/ deleteReport_destroy(s)
    \/ deleteReport_destroyAfter(s)
    \/ deleteReport_remove(s)
    \/ \E u \in {"u1", "adm"}, ids \in SUBSET Ids, p \in Patches :
         bulkUpdateReports(s, u, ids, p)
    \/ \E u \in {"u1", "adm"}, i \in Ids : assignDepartment(s, u, i, "Roads")
    \/ \E u \in {"u1", "u2"}, i \in Ids : upvoteReport_request(s, u, i)
    \/ upvoteReport_find(s)
    \/ upvoteReport_save(s)
    \/ \E u \in {"u1", "adm"} : getReportStats_request(s, u)
    \/ \E k \in Counts : getReportStats_count(s, k)

Spec == Init /\ [][Next]_vars

\* Image operations of owner, stranger and admin racing with an admin's
\* status update and with deletion; two requests in flight.
NextImage ==
  \E s \in Slots :
    \/ \E f \in BOOLEAN : createReport_request(s, "u1", f, NoSeverity, NoStatus, TRUE)
    \/ uploadToCloudinary(s)
    \/ createReport(s)
    \/ \E i \in Ids : updateReportStatus_request(s, "adm", i, "in-progress", FALSE)
    \/ updateReportStatus_find(s)
    \/ updateReportStatus_save(s)
    \/ \E u \in Users, i \in Ids, f \in BOOLEAN : updateUserReportImage_request(s, u, i, f)
    \/ updateUserReportImage_find(s)
    \/ updateUserReportImage_destroy(s)
    \/ updateUserReportImage_upload(s)
    \/ updateUserReportImage_save(s)
    \/ \E u \in Users, i \in Ids : deleteReportImage_request(s, u, i, "before")
    \/ deleteReportImage_find(s)
    \/ deleteReportImage_destroy(s)
    \/ deleteReportImage_save(s)
    \/ \E u \in Users, i \in Ids : deleteReport_request(s, u, i)
    \/ deleteReport_find(s)
    \/ deleteReport_destroy(s)
    \/ deleteReport_destroyAfter(s)
    \/ deleteReport_remove(s)

SpecImage == Init /\ [][NextImage]_vars

\* a step of the replace handler in slot s: the event loop runs every
\* continuation whose awaited promise or callback has settled
updateUserReportImage_step(s) ==
  \/ updateUserReportImage_find(s)
  \/ updateUserReportImage_destroy(s)
  \/ updateUserReportImage_upload(s)
  \/ updateUserReportImage_save(s)

\* The same requests, every replace handler running on to its end.
SpecImageFair ==
  Init /\ [][NextImage]_vars /\ \A s \in Slots : WF_vars(updateUserReportImage_step(s))

\* Requests by a user who owns no report, against reports whose status an
\* admin changes and which any user may ask to delete; two requests in flight.
NextStranger ==
  \E s \in Slots :
    \/ \E f \in BOOLEAN : createReport_request(s, "u1", f, NoSeverity, NoStatus, TRUE)
    \/ uploadToCloudinary(s)
    \/ createReport(s)
    \/ \E i \in Ids : updateReportStatus_request(s, "adm", i, "in-progress", FALSE)
    \/ updateReportStatus_find(s)
    \/ updateReportStatus_save(s)
    \/ \E i \in Ids, f \in BOOLEAN : updateUserReportImage_request(s, "u2", i, f)
    \/ updateUserReportImage_find(s)
    \/ \E i \in Ids : deleteReportImage_request(s, "u2", i, "before")
    \/ deleteReportImage_find(s)
    \/ \E u \in Users, i \in Ids : deleteReport_request(s, u, i)
    \/ deleteReport_find(s)
    \/ deleteReport_destroy(s)
    \/ deleteReport_destroyAfter(s)
    \/ deleteReport_remove(s)

SpecStranger == Init /\ [][NextStranger]_vars

\* Deletion of reports that hold a before-image and an after-image; two
\* requests in flight.
NextDelete ==
  \E s \in Slots :
    \/ \E f \in BOOLEAN : createReport_request(s, "u1", f, NoSeverity, NoStatus, TRUE)
    \/ uploadToCloudinary(s)
    \/ createReport(s)
    \/ \E i \in Ids : updateReportStatus_request(s, "adm", i, "resolved", TRUE)
    \/ uploadAfterImageToCloudinary(s)
    \/ updateReportStatus_find(s)
    \/ updateReportStatus_save(s)
    \/ \E u \in Users, i \in Ids : deleteReport_request(s, u, i)
    \/ deleteReport_find(s)
    \/ deleteReport_destroy(s)
    \/ deleteReport_destroyAfter(s)
    \/ deleteReport_remove(s)

SpecDelete == Init /\ [][NextDelete]_vars

\* Status updates with and without an after-image, racing with the removal
\* of the after-image and of the report; two requests in flight.
NextResolve ==
  \E s \in Slots :
    \/ createReport_request(s, "u1", FALSE, NoSeverity, NoStatus, TRUE)
    \/ createReport(s)
    \/ \E i \in Ids, st \in {"resolved", "pending", NoStatus}, f \in BOOLEAN :
         updateReportStatus_request(s, "adm", i, st, f)
    \/ uploadAfterImageToCloudinary(s)
    \/ updateReportStatus_find(s)
    \/ updateReportStatus_save(s)
    \/ \E i \in Ids : deleteReportImage_request(s, "adm", i, "after")
    \/ deleteReportImage_find(s)
    \/ deleteReportImage_destroy(s)
    \/ deleteReportImage_save(s)
    \/ \E i \in Ids : deleteReport_request(s, "adm", i)
    \/ deleteReport_find(s)
    \/ deleteReport_destroy(s)
    \/ deleteReport_destroyAfter(s)
    \/ deleteReport_remove(s)

SpecResolve == Init /\ [][NextResolve]_vars

\* Report creation with every input; one request at a time.
NextCreate ==
  \E s \in {1} :
    \/ \E f \in BOOLEAN, sev \in {NoSeverity} \cup Severities,
          st \in {NoStatus, "resolved"}, ok \in BOOLEAN :
         createReport_request(s, "u1", f, sev, st, ok)
    \/ uploadToCloudinary(s)
    \/ createReport(s)

SpecCreate == Init /\ [][NextCreate]_vars

\* Statistics racing with the writes that change the counted statuses; two
\* requests in flight.
NextStats ==
  \E s \in Slots :
    \/ createReport_request(s, "u1", FALSE, NoSeverity, NoStatus, TRUE)
    \/ createReport(s)
    \/ \E i \in Ids, st \in {"in-progress", "closed"} :
         updateReportStatus_request(s, "adm", i, st, FALSE)
    \/ updateReportStatus_find(s)
    \/ updateReportStatus_save(s)
    \/ \E ids \in SUBSET Ids, p \in {[status |-> "resolved"], [status |-> "closed"]} :
         bulkUpdateReports(s, "adm", ids, p)
    \/ \E i \in Ids : deleteReport_request(s, "adm", i)
    \/ deleteReport_find(s)
    \/ deleteReport_destroy(s)
    \/ deleteReport_destroyAfter(s)
    \/ deleteReport_remove(s)
    \/ getReportStats_request(s, "adm")
    \/ \E k \in Counts : getReportStats_count(s, k)

SpecStats == Init /\ [][NextStats]_vars

\* Upvote toggles by two users; two requests in flight.
NextUpvote ==
  \E s \in Slots :
    \/ createReport_request(s, "u1", FALSE, NoSeverity, NoStatus, TRUE)
    \/ createReport(s)
    \/ \E u \in {"u1", "u2"}, i \in Ids : upvoteReport_request(s, u, i)
    \/ upvoteReport_find(s)
    \/ upvoteReport_save(s)

SpecUpvote == Init /\ [][NextUpvote]_vars

\* Registration and login; two requests in flight.
NextLogin ==
  \E s \in Slots :
    \/ \E e \in Emails \cup {NoField}, p \in Passwords \cup {NoField} : register(s, e, p)
    \/ \E e \in Emails \cup {NoField}, p \in Passwords \cup {NoField} :
         login_request(s, e, p)
    \/ login_find(s)
    \/ login_compare(s)

SpecLogin == Init /\ [][NextLogin]_vars

\* The admin-only routes called by every user, the statistics by the users
\* who are no admin; two requests in flight.
NextAdmin ==
  \E s \in Slots :
    \/ createReport_request(s, "u1", FALSE, NoSeverity, NoStatus, TRUE)
    \/ createReport(s)
    \/ \E u \in Users, i \in Ids, st \in {"in-progress", "pending"} :
         updateReportStatus_request(s, u, i, st, FALSE)
    \/ updateReportStatus_find(s)
    \/ updateReportStatus_save(s)
    \/ \E u \in Users, i \in Ids, d \in Departments : assignDepartment(s, u, i, d)
    \/ \E u \in {"u1", "u2"} : getReportStats_request(s, u)

SpecAdmin == Init /\ [][NextAdmin]_vars

\* the further body fields of a status update that are exercised
Bodies ==
  { NoBody, [priority |-> "high"], [afterImageUrl |-> ForeignUrl] }

\* An admin's status updates with and without a status, an after-image and
\* further body fields; two requests in flight.
NextStatus ==
  \E s \in Slots :
    \/ createReport_request(s, "u1", FALSE, NoSeverity, NoStatus, TRUE)
    \/ createReport(s)
    \/ \E i \in Ids, st \in {"in-progress", NoStatus}, f \in BOOLEAN, b \in Bodies :
         updateReportStatus_body(s, "adm", i, st, f, b)
    \/ uploadAfterImageToCloudinary(s)
    \/ updateReportStatus_find(s)
    \/ updateReportStatus_save(s)

SpecStatus == Init /\ [][NextStatus]_vars

\* An admin's status updates to each of the three statuses, an after-image
\* coming only with a request for resolved; two requests in flight.
NextTransition ==
  \E s \in Slots :
    \/ createReport_request(s, "u1", FALSE, NoSeverity, NoStatus, TRUE)
    \/ createReport(s)
    \/ \E i \in Ids, st \in Statuses : updateReportStatus_request(s, "adm", i, st, FALSE)
    \/ \E i \in Ids : updateReportStatus_request(s, "adm", i, "resolved", TRUE)
    \/ uploadAfterImageToCloudinary(s)
    \/ updateReportStatus_find(s)
    \/ updateReportStatus_save(s)

SpecTransition == Init /\ [][NextTransition]_vars

\* An admin's image deletions with every imageType, on reports with and
\* without a before-image and an after-image; two requests in flight.
NextAdminImage ==
  \E s \in Slots :
    \/ \E f \in BOOLEAN : createReport_request(s, "u1", f, NoSeverity, NoStatus, TRUE)
    \/ uploadToCloudinary(s)
    \/ createReport(s)
    \/ \E i \in Ids : updateReportStatus_request(s, "adm", i, NoStatus, TRUE)
    \/ uploadAfterImageToCloudinary(s)
    \/ updateReportStatus_find(s)
    \/ updateReportStatus_save(s)
    \/ \E i \in Ids, ty \in {"before", "after", "none", "both"} :
         deleteReportImage_request(s, "adm", i, ty)
    \/ deleteReportImage_find(s)
    \/ deleteReportImage_destroy(s)
    \/ deleteReportImage_save(s)

SpecAdminImage == Init /\ [][NextAdminImage]_vars

\* ------------------------------------------------------------ the claims -
\* the upvoter set of a list
UpvoterSet(upvotes) == {upvotes[k] : k \in 1..Len(upvotes)}

\* C1: an updateStatus request with status=resolved on a stored report is
\* answered 400 and leaves the store unchanged when it carries no after-image
\* and the report stores none; when either is present it passes the gate, and
\* its save on the stored report is answered 200 with the status now resolved.
C1_ResolveGate ==
  [][\A s \in Slots :
       ( /\ req[s].op = "status" /\ req[s].status = "resolved"
         /\ req'[s] # req[s] /\ req[s].id \in Stored ) =>
         /\ req[s].pc = "find" =>
              IF req[s].imageUrl = NoUrl /\ reports[req[s].id].afterImageUrl = NoUrl
                THEN /\ req'[s].pc = "done" /\ req'[s].resp = 400
                     /\ reports' = reports
                ELSE req'[s].pc = "save"
         /\ req[s].pc = "save" =>
              /\ req'[s].pc = "done" /\ req'[s].resp = 200
              /\ reports'[req[s].id].status = "resolved"
              /\ reports'[req[s].id].afterImageUrl =
                   IF req[s].imageUrl # NoUrl THEN req[s].imageUrl
                                              ELSE reports[req[s].id].afterImageUrl
    ]_vars

\* C1 witness: one request was refused by the gate, another was answered 200,
\* and a stored report is resolved
C1_Witness ==
  \E s, r \in Slots :
    /\ req[s].op = "status" /\ req[s].resp = 400
    /\ req[s].msg = "After image required to resolve."
    /\ req[r].op = "status" /\ req[r].resp = 200
    /\ \E i \in Stored : reports[i].status = "resolved"

\* C2: no step changes the owner of a stored report
C2_OwnerImmutable ==
  [][\A i \in Stored \cap DOMAIN reports' : reports'[i].user = reports[i].user]_vars

\* C3: no stored report's upvoter list holds the same user twice
C3_NoDuplicateUpvoters ==
  \A i \in Stored :
    \A a, b \in 1..Len(reports[i].upvotes) :
      a # b => reports[i].upvotes[a] # reports[i].upvotes[b]

\* C4: a toggleUpvote that saves the document it loaded, nothing else having
\* written the list since, adds the caller when absent and removes the caller
\* when present, and the caller's next toggle on that result gives back the
\* upvoter set the first call found
C4_TogglePairRestores ==
  [][\A s \in Slots :
       ( /\ req[s].op = "upvote" /\ req[s].pc = "save" /\ req'[s] # req[s]
         /\ req'[s].resp = 200
         /\ reports[req[s].id].upvotes = req[s].doc.upvotes ) =>
         LET u      == req[s].caller
             before == UpvoterSet(reports[req[s].id].upvotes)
             after  == reports'[req[s].id].upvotes
         IN  /\ u \notin before => UpvoterSet(after) = before \cup {u}
             /\ u \in before => UpvoterSet(after) = before \ {u}
             /\ UpvoterSet(toggled(after, u)) = before
    ]_vars

\* C5: a stored report's imageUrl changes only in a step of a deleteImage
\* request by an admin, or of a replace or delete-image request by the report's
\* owner while the stored status is pending; and an owner's request that finds
\* the status not pending is answered 400 with the store unchanged
C5_ImageWriteAuthorized ==
  [][/\ \A i \in Stored \cap DOMAIN reports' :
          reports'[i].imageUrl # reports[i].imageUrl =>
            \E s \in Slots :
              /\ req'[s] # req[s] /\ req[s].id = i
              /\ req[s].op \in {"replace", "delimg"}
              /\ \/ role(req[s].caller) = "admin"
                 \/ reports[i].user = req[s].caller /\ reports[i].status = "pending"
     /\ \A s \in Slots :
          ( /\ req'[s] # req[s] /\ req[s].pc = "find"
            /\ req[s].op \in {"replace", "delimg"}
            /\ req[s].op = "replace" => req[s].file
            /\ req[s].id \in Stored
            /\ role(req[s].caller) # "admin"
            /\ reports[req[s].id].user = req[s].caller
            /\ reports[req[s].id].status # "pending" ) =>
            /\ req'[s].pc = "done" /\ req'[s].resp = 400
            /\ reports' = reports
    ]_vars

\* the handler step of an image replace, image delete or report delete
\* request by a caller who is neither the owner of the stored report nor an admin
StrangerStep(s) ==
  /\ req'[s] # req[s] /\ req[s].pc = "find"
  /\ req[s].op \in {"replace", "delimg", "delete"}
  /\ req[s].id \in Stored
  /\ reports[req[s].id].user # req[s].caller
  /\ role(req[s].caller) # "admin"

\* C6 as stated: every such request is answered 403 and changes nothing
C6_StrangerForbidden ==
  [][\A s \in Slots :
       StrangerStep(s) =>
         /\ req'[s].pc = "done" /\ req'[s].resp = 403
         /\ reports' = reports /\ assets' = assets
    ]_vars

\* C6 amended: every such request, a replace request carrying a photo, is
\* answered 403 and changes neither the store nor the image host
C6_StrangerForbiddenWithPhoto ==
  [][\A s \in Slots :
       (StrangerStep(s) /\ (req[s].op = "replace" => req[s].file)) =>
         /\ req'[s].pc = "done" /\ req'[s].resp = 403
         /\ reports' = reports /\ assets' = assets
    ]_vars

\* C6 witness: a stranger's replace and a stranger's delete were both
\* answered 403 on a report that is still stored
C6_Witness ==
  \E s, r \in Slots :
    /\ req[s].op = "replace" /\ req[s].resp = 403 /\ req[s].caller = "u2"
    /\ req[r].op = "delete" /\ req[r].resp = 403 /\ req[r].caller = "u2"
    /\ Stored # {}

\* C7: an authorized delete attempts the external delete of each image the
\* report stores, goes on whatever either attempt gave, and ends with the
\* record removed and 200
C7_DeleteBestEffort ==
  [][\A s \in Slots :
       (req'[s] # req[s] /\ req[s].op = "delete") =>
         /\ req[s].pc = "destroy" =>
              /\ req'[s].pc = "destroyAfter"
              /\ req'[s].tried = {req[s].doc.imageUrl} \ {NoUrl}
         /\ req[s].pc = "destroyAfter" =>
              /\ req'[s].pc = "remove"
              /\ req'[s].tried =
                   {req[s].doc.imageUrl, req[s].doc.afterImageUrl} \ {NoUrl}
         /\ req[s].pc = "remove" =>
              /\ req'[s].pc = "done" /\ req'[s].resp = 200
              /\ req[s].id \notin DOMAIN reports'
    ]_vars

\* C7 witness: a delete was answered 200 after attempting both external
\* deletes, one of which failed, and its record is gone
C7_Witness ==
  \E s \in Slots :
    /\ req[s].op = "delete" /\ req[s].resp = 200
    /\ Cardinality(req[s].tried) = 2 /\ Cardinality(req[s].failed) = 1
    /\ req[s].failed \subseteq assets
    /\ nextId > Cardinality(Stored)

\* C8: the four counts of a stats answer whose counts all ran on the same
\* collection satisfy pending + inProgress + resolved = total
C8_StatsSum ==
  \A s \in Slots :
    (req[s].op = "stats" /\ req[s].resp = 200 /\ ~req[s].doc.written) =>
      req[s].doc.pending + req[s].doc.inProgress + req[s].doc.resolved
        = req[s].doc.total

\* C8 witness: such an answer that counted a resolved report
C8_Witness ==
  \E s \in Slots :
    /\ req[s].op = "stats" /\ req[s].resp = 200 /\ ~req[s].doc.written
    /\ req[s].doc.total = 1 /\ req[s].doc.resolved = 1

\* C9: a create request that carries a photo writes its record only once its
\* upload has given a hosted URL, which the record stores; when the upload
\* fails the request is answered 500 and the store is unchanged
C9_UploadBeforeRecord ==
  [][\A s \in Slots :
       (req'[s] # req[s] /\ req[s].op = "create") =>
         /\ req[s].pc = "upload" =>
              /\ reports' = reports
              /\ \/ req'[s].pc = "done" /\ req'[s].resp = 500
                 \/ /\ req'[s].pc = "create"
                    /\ req'[s].imageUrl \in assets' \ assets
         /\ (req[s].pc = "create" /\ reports' # reports /\ req[s].file) =>
              /\ req[s].imageUrl # NoUrl
              /\ \A i \in DOMAIN reports' \ Stored :
                   reports'[i].imageUrl = req[s].imageUrl
    ]_vars

\* C9 witness: one create was answered 500 for its upload and wrote nothing,
\* another was answered 201 and its record holds a hosted image
C9_Witness ==
  \E s, r \in Slots :
    /\ req[s].op = "create" /\ req[s].resp = 500
    /\ req[r].op = "create" /\ req[r].resp = 201 /\ req[r].file
    /\ \E i \in Stored : reports[i].imageUrl \in assets

\* C10: the record a create writes has status pending whatever status the
\* body carries, and priority high for severity 4 or 5, low for 1 or 2,
\* medium for 3 and for no severity
C10_CreateDefaults ==
  [][\A s \in Slots :
       (req'[s] # req[s] /\ req[s].op = "create" /\ req[s].pc = "create") =>
         \A i \in DOMAIN reports' \ Stored :
           /\ reports'[i].status = "pending"
           /\ reports'[i].user = req[s].caller
           /\ reports'[i].priority =
                CASE req[s].severity \in {4, 5} -> "high"
                  [] req[s].severity \in {1, 2} -> "low"
                  [] req[s].severity = 3 -> "medium"
                  [] req[s].severity = NoSeverity -> "medium"
    ]_vars

\* C10 witness: a create whose body carried status resolved and severity 4
\* was answered 201 and its record is pending with priority high
C10_Witness ==
  \E s \in Slots :
    /\ req[s].op = "create" /\ req[s].resp = 201
    /\ req[s].status = "resolved" /\ req[s].severity = 4
    /\ \E i \in Stored : reports[i].status = "pending" /\ reports[i].priority = "high"

C12_AdminOnly ==
  [][\A s \in Slots :
       ( /\ Free(s) /\ req'[s] # req[s]
         /\ req'[s].op \in {"status", "assign", "stats"}
         /\ role(req'[s].caller) # "admin" ) =>
         /\ req'[s].pc = "done" /\ req'[s].resp = 403
         /\ reports' = reports
    ]_vars

\* C12 witness: a user's updateStatus and a user's assignDepartment were both
\* answered 403 while a report is stored, pending and unassigned
C12_Witness ==
  \E s, r \in Slots :
    /\ req[s].op = "status" /\ req[s].resp = 403 /\ role(req[s].caller) = "user"
    /\ req[r].op = "assign" /\ req[r].resp = 403 /\ role(req[r].caller) = "user"
    /\ \E i \in Stored :
         reports[i].status = "pending" /\ reports[i].assignedDepartment = "Unassigned"

\* C13: an admin's assignDepartment on a stored report is answered 200 and
\* changes the store in exactly one place, that report's assignedDepartment,
\* which now holds the given department; on an id that matches no report it
\* is answered 404 and the store is unchanged
C13_AssignFrame ==
  [][\A s \in Slots :
       ( /\ Free(s) /\ req'[s] # req[s] /\ req'[s].op = "assign"
         /\ role(req'[s].caller) = "admin" ) =>
         \/ /\ req'[s].resp = 200 /\ req'[s].id \in Stored
            /\ req'[s].department \in Departments
            /\ DOMAIN reports' = Stored
            /\ \A j \in Stored \ {req'[s].id} : reports'[j] = reports[j]
            /\ reports'[req'[s].id].assignedDepartment = req'[s].department
            /\ \A f \in DOMAIN reports[req'[s].id] \ {"assignedDepartment"} :
                 reports'[req'[s].id][f] = reports[req'[s].id][f]
         \/ /\ req'[s].resp = 404 /\ req'[s].id \notin Stored
            /\ reports' = reports
    ]_vars

\* C13 witness: an assignment to Water was answered 200 on a report that is
\* in progress, and another assignment was answered 404
C13_Witness ==
  \E s, r \in Slots :
    /\ req[s].op = "assign" /\ req[s].resp = 200 /\ req[s].department = "Water"
    /\ req[s].id \in Stored
    /\ reports[req[s].id].assignedDepartment = "Water"
    /\ reports[req[s].id].status = "in-progress"
    /\ req[r].op = "assign" /\ req[r].resp = 404

\* C14 as stated: after a status update answered 200, the stored report holds
\* the body's value for every field the body carries
C14_PatchVerbatim ==
  [][\A s \in Slots :
       ( /\ req[s].op = "status" /\ req[s].pc = "save" /\ req'[s] # req[s]
         /\ req'[s].resp = 200 ) =>
         \A f \in DOMAIN req[s].body : reports'[req[s].id][f] = req[s].body[f]
    ]_vars

\* C14 amended: a status update answered 200 writes the body's status and its
\* afterImageUrl (the URL of the uploaded after-image when a file came with
\* it), each when present, and leaves every other field of the stored report
\* as it was, whatever else the body carries
C14_StatusAndImageOnly ==
  [][\A s \in Slots :
       ( /\ req[s].op = "status" /\ req[s].pc = "save" /\ req'[s] # req[s]
         /\ req'[s].resp = 200 ) =>
         LET i == req[s].id IN
         /\ i \in Stored /\ DOMAIN reports' = Stored
         /\ reports'[i].status =
              IF req[s].status # NoStatus THEN req[s].status ELSE reports[i].status
         /\ reports'[i].afterImageUrl =
              IF req[s].imageUrl # NoUrl THEN req[s].imageUrl
                                         ELSE reports[i].afterImageUrl
         /\ \A f \in DOMAIN reports[i] \ {"status", "afterImageUrl"} :
              reports'[i][f] = reports[i][f]
    ]_vars

\* C14 witness: an update carrying priority high was answered 200, the
\* report is in progress with an after-image, and its priority is still medium
C14_Witness ==
  \E s \in Slots :
    /\ req[s].op = "status" /\ req[s].resp = 200
    /\ req[s].body = [priority |-> "high"]
    /\ \E i \in Stored :
         /\ reports[i].status = "in-progress" /\ reports[i].afterImageUrl # NoUrl
         /\ reports[i].priority = "medium"

\* C15: an admin's deleteImage on a stored report is refused with 400, with
\* no external delete and the store unchanged, when imageType is neither
\* before nor after or the slot it names is empty; otherwise it goes on to
\* the external delete of the named slot's URL, and its save on the stored
\* report clears that slot, changes nothing else and is answered 200
C15_AdminDeleteImage ==
  [][\A s \in Slots :
       ( /\ req[s].op = "delimg" /\ req'[s] # req[s] /\ req[s].id \in Stored
         /\ role(req[s].caller) = "admin" ) =>
         LET i == req[s].id
             named == IF req[s].imageType = "before" THEN "imageUrl"
                      ELSE IF req[s].imageType = "after" THEN "afterImageUrl"
                      ELSE "none"
         IN
         /\ req[s].pc = "find" =>
              /\ reports' = reports /\ assets' = assets
              /\ IF named = "none" \/ reports[i][named] = NoUrl
                   THEN req'[s].pc = "done" /\ req'[s].resp = 400
                   ELSE /\ req'[s].pc = "destroy"
                        /\ req'[s].doc.slot = named
                        /\ req'[s].doc.url = reports[i][named]
         /\ req[s].pc = "destroy" =>
              /\ reports' = reports
              /\ assets \ assets' \subseteq {req[s].doc.url}
         /\ req[s].pc = "save" =>
              /\ req'[s].pc = "done" /\ req'[s].resp = 200
              /\ reports' = [reports EXCEPT ![i][req[s].doc.slot] = NoUrl]
    ]_vars

\* C15 witness: an admin's deleteImage was answered 200 and left a report
\* with its before-image and without an after-image, and another was
\* answered 400
C15_Witness ==
  \E s, r \in Slots :
    /\ req[s].op = "delimg" /\ req[s].resp = 200
    /\ req[r].op = "delimg" /\ req[r].resp = 400
    /\ \E i \in Stored :
         reports[i].imageUrl # NoUrl /\ reports[i].afterImageUrl = NoUrl

C17_AnyTransition ==
  [][\A s \in Slots :
       ( /\ req[s].op = "status" /\ req'[s] # req[s]
         /\ req[s].id \in Stored /\ req[s].status \in Statuses ) =>
         LET i == req[s].id IN
         /\ req[s].pc = "find" =>
              IF /\ req[s].status = "resolved" /\ req[s].imageUrl = NoUrl
                 /\ reports[i].afterImageUrl = NoUrl
                THEN req'[s].pc = "done" /\ req'[s].resp = 400 /\ reports' = reports
                ELSE req'[s].pc = "save"
         /\ req[s].pc = "save" =>
              /\ req'[s].pc = "done" /\ req'[s].resp = 200
              /\ reports[i].status \in Statuses
              /\ reports'[i].status = req[s].status
    ]_vars

\* C17 witness: a report that holds an after-image, which only a request for
\* resolved brought, is pending again after an update answered 200
C17_Witness ==
  \E s \in Slots :
    /\ req[s].op = "status" /\ req[s].resp = 200
    /\ \E i \in Stored :
         reports[i].status = "pending" /\ reports[i].afterImageUrl # NoUrl

\* C18: every stored report whose status is resolved holds an after-image
C18_ResolvedHasAfterImage ==
  \A i \in Stored :
    reports[i].status = "resolved" => reports[i].afterImageUrl # NoUrl

\* C19: every image URL a stored report holds is the URL of an asset that
\* exists on the image host
C19_StoredUrlsHosted ==
  \A i \in Stored :
    /\ reports[i].imageUrl # NoUrl => reports[i].imageUrl \in assets
    /\ reports[i].afterImageUrl # NoUrl => reports[i].afterImageUrl \in assets

\* C20: every replace request that has arrived is eventually answered
C20_ReplaceAnswered ==
  \A s \in Slots :
    (req[s].op = "replace" /\ req[s].pc # "done")
      ~> (req[s].op = "replace" /\ req[s].pc = "done")
====
